---- MODULE Spec2Model ----
(***************************************************************************)
(* Model of the shortcode parser (ShortcodeParser): the handler registry,  *)
(* tag extraction, end-tag folding, overlap filtering, handler dispatch,   *)
(* replacement and the recursive re-scan of parse().                       *)
(*                                                                         *)
(* A text is a sequence of one-character strings.  Offsets (start, end,    *)
(* lastIndex) are the 0-based offsets of the JavaScript source; the        *)
(* 1-based index of TLA+ sequences is offset + 1.                          *)
(***************************************************************************)
EXTENDS Integers, Sequences, FiniteSets, TLC

\* ------------------------------------------------------------------ bounds

\* Largest number of tokens an input text is built from.
MaxTokens == 2
\* Largest number of entries the registry holds.
MaxEntries == 2
\* A re-scan is followed only while the text is no longer than this.
MaxTextLen == 64
\* Largest number of tokens a text with end tags is built from.
MaxScanTokens == 4
\* Largest number of attributes the attribute block of a tag holds.
MaxAttrs == 2
\* Largest number of tokens a text parsed under configured delimiters is
\* built from.
MaxDelimTokens == 2

\* ------------------------------------------------------- JavaScript values

\* A JavaScript value: a string (s is its text), undefined, or an object
\* (s names the object).
Str(s) == [type |-> "string", s |-> s]
Undefined == [type |-> "undefined", s |-> <<>>]

\* ToBoolean(v): undefined and the empty string are falsy.
Truthy(v) == ~(v.type = "undefined" \/ (v.type = "string" /\ v.s = <<>>))

\* String(v), as String.prototype.replace applies it to its replaceValue.
StringOf(v) ==
    CASE v.type = "undefined" -> <<"u","n","d","e","f","i","n","e","d">>
      [] v.type = "object" ->
            <<"[","o","b","j","e","c","t"," ","O","b","j","e","c","t","]">>
      [] OTHER -> v.s

\* v || ''
OrEmpty(v) == IF Truthy(v) THEN v ELSE Str(<<>>)

\* ------------------------------------------------------------ text helpers

Min(S) == CHOOSE x \in S : \A y \in S : x <= y

\* pat occurs in txt at 1-based index i.
HasAt(txt, i, pat) ==
    /\ i >= 1
    /\ i + Len(pat) - 1 <= Len(txt)
    /\ \A k \in 1..Len(pat) : txt[i + k - 1] = pat[k]

\* String.prototype.indexOf(pat): the 0-based offset of the first occurrence,
\* -1 when there is none.
IndexOf(txt, pat) ==
    LET hits == {i \in 1..(Len(txt) + 1) : HasAt(txt, i, pat)}
    IN  IF hits = {} THEN -1 ELSE Min(hits) - 1

\* String.prototype.substring(a, b): offsets are clamped and swapped.
Substring(txt, a, b) ==
    LET clamp(x) == IF x < 0 THEN 0 ELSE IF x > Len(txt) THEN Len(txt) ELSE x
        lo == IF clamp(a) <= clamp(b) THEN clamp(a) ELSE clamp(b)
        hi == IF clamp(a) <= clamp(b) THEN clamp(b) ELSE clamp(a)
    IN  SubSeq(txt, lo + 1, hi)

\* Characters the pattern "." does not match, and the characters of "\s".
LineTerminators == {"\n", "\r"}
WhiteSpace == {" ", "\t", "\n", "\r"}

\* ------------------------------------------------------------- delimiters

\* options: the options the finder of the parser instance is made from,
\* Object.assign({}, defaultOptions, options).
VARIABLE options

defaultOptions == [start |-> <<"[", "[">>, end |-> <<"]", "]">>]

\* options.start and options.end
StartDelim == options.start
EndDelim == options.end

Digits == {"0", "1", "2", "3", "4", "5", "6", "7", "8", "9"}

\* _addSlashToEachCharacter puts a backslash before every character of a
\* delimiter: x is a character the escape of c matches.  The escape of "d"
\* is the class of the digits and that of "s" the class of white space; the
\* escapes of "t", "n" and "r" are the tab, the line feed and the carriage
\* return; the escape of a punctuation character is the character.  (The
\* delimiters used hold no other letter and no digit.)
EscapedMatches(c, x) ==
    CASE c = "d" -> x \in Digits
      [] c = "s" -> x \in WhiteSpace
      [] c = "t" -> x = "\t"
      [] c = "n" -> x = "\n"
      [] c = "r" -> x = "\r"
      [] OTHER -> x = c

\* The pattern _createRegExp makes of the delimiter delim matches txt at the
\* 1-based index i.
DelimAt(txt, i, delim) ==
    /\ i >= 1
    /\ i + Len(delim) - 1 <= Len(txt)
    /\ \A k \in 1..Len(delim) : EscapedMatches(delim[k], txt[i + k - 1])

\* With both delimiters empty xTagMatch matches the empty string at
\* lastIndex, which exec() then leaves where it is: the while loop of
\* _extractTagStrings never ends.
NeverEnds == StartDelim = <<>> /\ EndDelim = <<>>

\* xTagMatch = '{start}.*?{end}' tried at 1-based index i: the 1-based index
\* of the end delimiter the lazy ".*?" stops at, 0 when there is no match.
\* The first end delimiter after the start delimiter ends the match, unless
\* a line terminator, which "." does not match, comes before it.
TagMatchAt(txt, i) ==
    IF ~DelimAt(txt, i, StartDelim) THEN 0
    ELSE LET from == i + Len(StartDelim)
             ends == {j \in from..(Len(txt) + 1) : DelimAt(txt, j, EndDelim)}
         IN  IF ends = {} THEN 0
             ELSE IF \E k \in from..(Min(ends) - 1) : txt[k] \in LineTerminators
             THEN 0
             ELSE Min(ends)

\* The leftmost 1-based index at or after i where xTagMatch matches, 0 when
\* there is none.
RECURSIVE FirstTagMatch(_, _)
FirstTagMatch(txt, i) ==
    IF i > Len(txt) THEN 0
    ELSE IF TagMatchAt(txt, i) > 0 THEN i
    ELSE FirstTagMatch(txt, i + 1)

\* finder.tagMatch.exec(txt) with lastIndex = pos: the match record
\* (result[0] and the lastIndex that _extractTagStrings stores), or the
\* record with found = FALSE.
TagMatchExec(txt, pos) ==
    LET i == FirstTagMatch(txt, pos + 1)
        j == TagMatchAt(txt, i)
    IN  IF i = 0 THEN [found |-> FALSE, str |-> <<>>, lastIndex |-> 0]
        ELSE [found |-> TRUE,
              str |-> SubSeq(txt, i, j + Len(EndDelim) - 1),
              lastIndex |-> j + Len(EndDelim) - 1]

RECURSIVE ExtractFrom(_, _)
ExtractFrom(txt, pos) ==
    LET m == TagMatchExec(txt, pos)
    IN  IF ~m.found THEN <<>>
        ELSE <<[str |-> m.str, lastIndex |-> m.lastIndex]>>
                \o ExtractFrom(txt, m.lastIndex)

\* _extractTagStrings(txt, finder)
ExtractTagStrings(txt) == ExtractFrom(txt, 0)

\* finder.isEndTag.test(str): xIsEndTag = '^{start}\/'
IsEndTag(str) == DelimAt(str, 1, StartDelim) /\ HasAt(str, Len(StartDelim) + 1, <<"/">>)

\* finder.getTagName.exec(str)[1]: xGetTagName = '{start}(?:\/|)(.*?)(?:\s|{end})'
\* on a tag string: the optional "/" is taken when present, the name runs
\* lazily to the first white space or end delimiter.
GetTagName(str) ==
    LET from == IF IsEndTag(str) THEN Len(StartDelim) + 2 ELSE Len(StartDelim) + 1
        stops == {j \in from..(Len(str) + 1) :
                    /\ \/ j <= Len(str) /\ str[j] \in WhiteSpace
                       \/ DelimAt(str, j, EndDelim)
                    /\ \A k \in from..(j - 1) : str[k] \notin LineTerminators}
    IN  SubSeq(str, from, Min(stops) - 1)

\* finder.getStartTagContent.exec(str)[1]: xStartTagContents = '{start}(.*){end}'
\* on a tag string: greedy, so up to the last end delimiter.
GetStartTagContent(str) ==
    SubSeq(str, Len(StartDelim) + 1, Len(str) - Len(EndDelim))

\* ------------------------------------------------------------ attributes

\* The index of the first character at or after p that "\s" does not match,
\* Len(s) + 1 when there is none.
SkipSpace(s, p) ==
    Min({j \in p..(Len(s) + 1) : j = Len(s) + 1 \/ s[j] \notin WhiteSpace})

\* The index of the last character of the run of characters "\S" matches
\* that begins at p.
RunEnd(s, p) ==
    Min({j \in p..(Len(s) + 1) : j = Len(s) + 1 \/ s[j] \in WhiteSpace}) - 1

\* The index at which the quote opened at q is closed: the lazy (.*?) stops
\* at the first quote of the same kind, and "." matches no line terminator.
\* 0 when the quote is not closed.
CloseQuote(s, q) ==
    LET closes == {j \in (q + 1)..Len(s) :
                    /\ s[j] = s[q]
                    /\ \A i \in (q + 1)..(j - 1) : s[i] \notin LineTerminators}
    IN  IF closes = {} THEN 0 ELSE Min(closes)

Quotes == {"'", "\""}

NoMatch == [found |-> FALSE, alt |-> 0, key |-> <<>>, text |-> <<>>, last |-> 0]

\* (\S+)\s*=\s*([\'\"])(.*?)\2 tried at p with the key ending at k.
KeyQuotedAt(s, p, k) ==
    LET e == SkipSpace(s, k + 1)
        q == SkipSpace(s, e + 1)
    IN  IF e <= Len(s) /\ s[e] = "=" /\ q <= Len(s) /\ s[q] \in Quotes
           /\ CloseQuote(s, q) > 0
        THEN [found |-> TRUE, alt |-> 1, key |-> SubSeq(s, p, k),
              text |-> SubSeq(s, q + 1, CloseQuote(s, q) - 1),
              last |-> CloseQuote(s, q)]
        ELSE NoMatch

\* (\S+)\s*=\s*(\S+) tried at p with the key ending at k.
KeyPlainAt(s, p, k) ==
    LET e == SkipSpace(s, k + 1)
        v == SkipSpace(s, e + 1)
    IN  IF e <= Len(s) /\ s[e] = "=" /\ v <= Len(s)
        THEN [found |-> TRUE, alt |-> 2, key |-> SubSeq(s, p, k),
              text |-> SubSeq(s, v, RunEnd(s, v)), last |-> RunEnd(s, v)]
        ELSE NoMatch

\* The greedy (\S+) of the two keyed alternatives: the longest key for which
\* the rest of the alternative matches.
LongestKeyQuoted(s, p) ==
    LET ks == {k \in p..RunEnd(s, p) : KeyQuotedAt(s, p, k).found}
    IN  IF ks = {} THEN NoMatch
        ELSE KeyQuotedAt(s, p, CHOOSE k \in ks : \A j \in ks : j <= k)

LongestKeyPlain(s, p) ==
    LET ks == {k \in p..RunEnd(s, p) : KeyPlainAt(s, p, k).found}
    IN  IF ks = {} THEN NoMatch
        ELSE KeyPlainAt(s, p, CHOOSE k \in ks : \A j \in ks : j <= k)

\* ([^\'^\"^\s]+)(?:\s|$) tried at p: the run of characters that are no
\* quote, caret or white space, when white space or the end of the text
\* comes after it.
BareAt(s, p) ==
    LET Barred(c) == c \in Quotes \cup {"^"} \cup WhiteSpace
        m == Min({j \in p..(Len(s) + 1) : j = Len(s) + 1 \/ Barred(s[j])}) - 1
    IN  IF m >= p /\ (m = Len(s) \/ s[m + 1] \in WhiteSpace)
        THEN [found |-> TRUE, alt |-> 3, key |-> <<>>, text |-> SubSeq(s, p, m),
              last |-> IF m = Len(s) THEN m ELSE m + 1]
        ELSE NoMatch

\* ([\'\"])(.*?)\7 tried at p.
QuotedAt(s, p) ==
    IF s[p] \in Quotes /\ CloseQuote(s, p) > 0
    THEN [found |-> TRUE, alt |-> 4, key |-> <<>>,
          text |-> SubSeq(s, p + 1, CloseQuote(s, p) - 1),
          last |-> CloseQuote(s, p)]
    ELSE NoMatch

\* xGetAttributes tried at p: the first alternative, in the order of the
\* pattern, that matches there.
AttributeAt(s, p) ==
    IF LongestKeyQuoted(s, p).found THEN LongestKeyQuoted(s, p)
    ELSE IF LongestKeyPlain(s, p).found THEN LongestKeyPlain(s, p)
    ELSE IF BareAt(s, p).found THEN BareAt(s, p)
    ELSE QuotedAt(s, p)

\* xGetAttributes.exec(s) with lastIndex = pos: the match at the leftmost
\* index where the pattern matches.
RECURSIVE AttributeExec(_, _)
AttributeExec(s, pos) ==
    IF pos >= Len(s) THEN NoMatch
    ELSE IF AttributeAt(s, pos + 1).found THEN AttributeAt(s, pos + 1)
    ELSE AttributeExec(s, pos + 1)

\* An object with the one property key: value.
ObjectOf(key, value) == [type |-> "object", s |-> <<>>, key |-> key, value |-> value]

\* attributes[name] = value
SetProperty(props, name, value) ==
    IF \E i \in 1..Len(props) : props[i].name = name
    THEN [i \in 1..Len(props) |->
            IF props[i].name = name THEN [name |-> name, value |-> value]
            ELSE props[i]]
    ELSE Append(props, [name |-> name, value |-> value])

NoAttributes == [numbered |-> <<>>, named |-> <<>>]

DigitValue(c) ==
    CHOOSE n \in 0..9 : <<"0", "1", "2", "3", "4", "5", "6", "7", "8", "9">>[n + 1] = c

\* The key is the decimal numeral of a positive integer: attributes[key] is
\* then the property attributes[count] is for the count of that value.
IsSlotName(key) ==
    /\ key # <<>>
    /\ \A i \in 1..Len(key) : key[i] \in Digits
    /\ key[1] # "0"

RECURSIVE SlotOf(_)
SlotOf(key) ==
    IF key = <<>> THEN 0
    ELSE 10 * SlotOf(SubSeq(key, 1, Len(key) - 1)) + DigitValue(key[Len(key)])

\* attributes[n] = value, for a number n: the slots below n that are not
\* set yet read undefined.
SetSlot(numbered, n, value) ==
    [i \in 1..(IF n > Len(numbered) THEN n ELSE Len(numbered)) |->
        IF i = n THEN value
        ELSE IF i <= Len(numbered) THEN numbered[i]
        ELSE Undefined]

\* attributes[key] = value, for a key of the text.
SetKey(attributes, key, value) ==
    IF IsSlotName(key)
    THEN [attributes EXCEPT !.numbered = SetSlot(@, SlotOf(key), value)]
    ELSE [attributes EXCEPT !.named = SetProperty(@, key, value)]

\* attributes[count][key] = value throws a TypeError: the source is in
\* strict mode, and attributes[key] = value has put a string or undefined
\* where attributes[count] = {} had put the object.
AttributeThrows(m, count) ==
    /\ m.alt \in {1, 2}
    /\ IsSlotName(m.key)
    /\ SlotOf(m.key) = count

\* The body of the while loop of _getAttribute for the match m.  The
\* attributes object is held as its properties of a positive whole number,
\* in the order of the numbers, and its other ones.  result[3] ||
\* result[5] is undefined for a quoted empty value.
AddAttribute(attributes, m, count) ==
    LET value == IF m.text = <<>> THEN Undefined ELSE Str(m.text)
        entry == IF m.alt \notin {1, 2} THEN value
                 ELSE IF AttributeThrows(m, count) THEN ObjectOf(<<>>, Undefined)
                 ELSE ObjectOf(m.key, value)
        numbered == [attributes EXCEPT !.numbered = SetSlot(@, count, entry)]
    IN  IF m.alt \in {1, 2} THEN SetKey(numbered, m.key, value) ELSE numbered

\* The while loop of _getAttribute from xGetAttributes.lastIndex = pos on:
\* the attributes, whether the loop threw, and the lastIndex it leaves.  A
\* loop that ends leaves 0, one that throws leaves the end of its match.
\* AttributesStep is the loop with m the result of its exec().
RECURSIVE AttributesFrom(_, _, _, _)
AttributesStep(s, m, attributes, count) ==
    IF ~m.found
    THEN [attributes |-> attributes, threw |-> FALSE, lastIndex |-> 0]
    ELSE IF AttributeThrows(m, count)
    THEN [attributes |-> AddAttribute(attributes, m, count), threw |-> TRUE,
          lastIndex |-> m.last]
    ELSE AttributesFrom(s, m.last, AddAttribute(attributes, m, count), count + 1)

AttributesFrom(s, pos, attributes, count) ==
    AttributesStep(s, AttributeExec(s, pos), attributes, count)

\* getAttributes.exec(tag)[1] for xGetTagAttributesText =
\* '{start}.*?\s(.*?){end}' on a tag string: the text after the first white
\* space and before the first end delimiter that follows it.
GetTagAttributesText(str) ==
    LET spaces == {j \in (Len(StartDelim) + 1)..Len(str) : str[j] \in WhiteSpace}
        ends == {j \in (Min(spaces) + 1)..(Len(str) + 1) : DelimAt(str, j, EndDelim)}
    IN  SubSeq(str, Min(spaces) + 1, Min(ends) - 1)

\* _getAttribute(getAttributes, tag) with xGetAttributes.lastIndex as it is
\* left by the call before: a tag without white space runs no loop and
\* leaves lastIndex alone.
GetAttributeAt(str, index) ==
    IF \A j \in (Len(StartDelim) + 1)..Len(str) : str[j] \notin WhiteSpace
    THEN [attributes |-> NoAttributes, threw |-> FALSE, lastIndex |-> index]
    ELSE AttributesFrom(GetTagAttributesText(str), index, NoAttributes, 1)

\* _getAttribute(getAttributes, tag) with xGetAttributes.lastIndex = 0
GetAttribute(str) == GetAttributeAt(str, 0).attributes

\* attributes[n] and attributes[name], read by a handler.
NumberedAttribute(attributes, n) ==
    IF n \in 1..Len(attributes.numbered) THEN attributes.numbered[n] ELSE Undefined

NamedAttribute(attributes, name) ==
    IF \E i \in 1..Len(attributes.named) : attributes.named[i].name = name
    THEN attributes.named[CHOOSE i \in 1..Len(attributes.named) :
                            attributes.named[i].name = name].value
    ELSE Undefined

\* ShortcodeParserTag(finder, result), with a what finder.getAttributes
\* gives for result[0].
ShortcodeParserTag(result, a) ==
    [tagName |-> GetTagName(result.str),
     endTag |-> IsEndTag(result.str),
     fullMatch |-> result.str,
     end |-> result.lastIndex,
     start |-> result.lastIndex - Len(result.str),
     attributes |-> a.attributes,
     content |-> <<>>,
     tagContents |-> GetStartTagContent(result.str),
     selfClosing |-> TRUE]

\* The map of _parse from the n-th result on, with xGetAttributes.lastIndex
\* = index: the tags made, whether a constructor threw, and the lastIndex
\* left behind.  ParseStep is the map with a what finder.getAttributes
\* gives for the n-th result.
RECURSIVE ParseFrom(_, _, _, _)
ParseStep(results, n, a, tags) ==
    IF a.threw
    THEN [tags |-> tags, threw |-> TRUE, lastIndex |-> a.lastIndex]
    ELSE ParseFrom(results, n + 1, a.lastIndex,
                   Append(tags, ShortcodeParserTag(results[n], a)))

ParseFrom(results, n, index, tags) ==
    IF n > Len(results)
    THEN [tags |-> tags, threw |-> FALSE, lastIndex |-> index]
    ELSE ParseStep(results, n, GetAttributeAt(results[n].str, index), tags)

\* _parse(txt, finder, parserInstance) with xGetAttributes.lastIndex given
ParseTagsAt(txt, index) == ParseFrom(ExtractTagStrings(txt), 1, index, <<>>)

\* _parse(txt, finder, parserInstance) with xGetAttributes.lastIndex = 0
ParseTags(txt) == ParseTagsAt(txt, 0).tags

\* A fold that leaves the content out of fullMatch.
FoldEndTagOnly(txt, t, e) ==
    LET content == Substring(txt, t.end, e.start)
    IN  [t EXCEPT !.content = content,
                  !.fullMatch = t.fullMatch \o e.fullMatch,
                  !.end = e.end,
                  !.selfClosing = FALSE]

\* The body of the inner loop of _fixEndTags: start tag t takes end tag e.
FoldEndTag(txt, t, e) ==
    LET content == Substring(txt, t.end, e.start)
    IN  [t EXCEPT !.content = content,
                  !.fullMatch = t.fullMatch \o content \o e.fullMatch,
                  !.end = e.end,
                  !.selfClosing = FALSE]

\* The map callback of _fixEndTags at index n: when tags[n] is an end tag,
\* every record at or before n with its name that is not an end tag is folded.
FixEndTagAt(txt, tags, n) ==
    IF ~tags[n].endTag THEN tags
    ELSE [nn \in 1..Len(tags) |->
            IF nn <= n /\ tags[nn].tagName = tags[n].tagName /\ ~tags[nn].endTag
            THEN FoldEndTag(txt, tags[nn], tags[n])
            ELSE tags[nn]]

RECURSIVE FixEndTagsFrom(_, _, _)
FixEndTagsFrom(txt, tags, n) ==
    IF n > Len(tags) THEN tags
    ELSE FixEndTagsFrom(txt, FixEndTagAt(txt, tags, n), n + 1)

\* _fixEndTags(txt, tags)
FixEndTags(txt, tags) ==
    LET IsStart(t) == ~t.endTag
    IN  SelectSeq(FixEndTagsFrom(txt, tags, 1), IsStart)

\* A filter callback that compares the starts of the earlier records, not
\* their ends, with the start of the record.
NoEarlierOverlapByStart(tags, n) ==
    \A nn \in 1..(n - 1) : ~(tags[nn].start > tags[n].start)

\* The filter callback of _filterOverlappingTags at index n.
NoEarlierOverlap(tags, n) == \A nn \in 1..(n - 1) : ~(tags[nn].end > tags[n].start)

RECURSIVE FilterFrom(_, _)
FilterFrom(tags, n) ==
    IF n > Len(tags) THEN <<>>
    ELSE (IF NoEarlierOverlap(tags, n) THEN <<tags[n]>> ELSE <<>>)
            \o FilterFrom(tags, n + 1)

\* _filterOverlappingTags(tags)
FilterOverlappingTags(tags) == FilterFrom(tags, 1)

\* The resolved tags of one pass: the first statement of parse().
ResolveTags(txt) == FilterOverlappingTags(FixEndTags(txt, ParseTags(txt)))

\* --------------------------------------------------------------- replace

\* GetSubstitution of String.prototype.replace for a string pattern (no
\* captures): dollar-dollar is a dollar sign, dollar-ampersand the matched
\* text, dollar-backquote the text before the match, dollar-quote the text
\* after it; any other dollar sign stands for itself.
\* The character U+0060, which a TLA+ string literal cannot hold.
Backquote == "U+0060"

RECURSIVE GetSubstitution(_, _, _, _, _)
GetSubstitution(rep, k, matched, before, after) ==
    IF k > Len(rep) THEN <<>>
    ELSE IF rep[k] = "$" /\ k < Len(rep) /\ rep[k + 1] \in {"$", "&", Backquote, "'"}
         THEN (CASE rep[k + 1] = "$" -> <<"$">>
                 [] rep[k + 1] = "&" -> matched
                 [] rep[k + 1] = Backquote -> before
                 [] OTHER -> after)
              \o GetSubstitution(rep, k + 2, matched, before, after)
         ELSE <<rep[k]>> \o GetSubstitution(rep, k + 1, matched, before, after)

\* txt.replace(pat, value) for a string pat: the first occurrence of pat is
\* replaced by the substitution of String(value); no occurrence, no change.
StringReplace(txt, pat, value) ==
    LET pos == IndexOf(txt, pat)
        before == SubSeq(txt, 1, pos)
        after == SubSeq(txt, pos + Len(pat) + 1, Len(txt))
    IN  IF pos < 0 THEN txt
        ELSE before \o GetSubstitution(StringOf(value), 1, pat, before, after) \o after

\* ------------------------------------------------- references and handlers

tokA == <<"[", "[", "A", "]", "]">>
tokB == <<"[", "[", "B", "]", "]">>
\* A tag B whose head holds the text of a tag A.
tokBA == <<"[", "[", "B", " ", "[", "[", "A", "]", "]">>

\* The references add() is called with: the tag names 'A' and 'B', the
\* regular expression /^A/ and the function ()=>true.
NameA == [kind |-> "string", name |-> <<"A">>]
NameB == [kind |-> "string", name |-> <<"B">>]
RxA == [kind |-> "regexp", name |-> <<"^", "A">>]
FnTrue == [kind |-> "function", name |-> <<"t", "r", "u", "e">>]
\* The selectors of the pdf link example: the regular expression
\* /^.*\.pdf/ and the function tagContents=>/^.*\.pdf/.test(tagContents).
RxPdf == [kind |-> "regexp", name |-> <<"^", ".", "*", "\\", ".", "p", "d", "f">>]
FnPdf == [kind |-> "function", name |-> <<"p", "d", "f">>]
References == {NameA, NameB, RxA, FnTrue, RxPdf, FnPdf}

\* The handler functions add() is called with.
Handlers ==
    {"hX", "hY", "hNone", "hLateNone", "hThrow", "hReject", "hEmit", "hParam",
     "hToA", "hToB", "hLink"}

\* What a call handler(tag, ...ps) does: it returns a value, throws, or
\* returns a promise that later resolves to a value or rejects.
Return(v) == [kind |-> "return", value |-> v, rejects |-> FALSE]
Deferred(v) == [kind |-> "promise", value |-> v, rejects |-> FALSE]
Rejecting == [kind |-> "promise", value |-> Undefined, rejects |-> TRUE]
Throw == [kind |-> "throw", value |-> Undefined, rejects |-> FALSE]

Go == Str(<<"g", "o">>)

\* The pieces of the text the pdf link handler returns:
\* '<a href="/uploads/pdfs/' + tag.attributes[1] + '">' + tag.attributes[2]
\* + '</a>'
LinkOpen ==
    <<"<", "a", " ", "h", "r", "e", "f", "=", "\"", "/", "u", "p", "l",
      "o", "a", "d", "s", "/", "p", "d", "f", "s", "/">>
LinkMiddle == <<"\"", ">">>
LinkClose == <<"<", "/", "a", ">">>

InvokeHandler(h, tag, ps) ==
    CASE h = "hX" -> Return(Str(<<"x">>))
      [] h = "hY" -> Deferred(Str(<<"y">>))
      [] h = "hNone" -> Return(Undefined)
      [] h = "hLateNone" -> Deferred(Undefined)
      [] h = "hThrow" -> Throw
      [] h = "hReject" -> Rejecting
      [] h = "hEmit" -> Return(Str(tokB))
      [] h = "hParam" ->
            IF Len(ps) >= 1 /\ ps[1] = Go THEN Return(Str(<<"x">>))
            ELSE Return(Str(tag.fullMatch))
      [] h = "hToA" -> Return(Str(<<"[", "$", "'", "[", "A", "]", "]">>))
      [] h = "hToB" -> Return(Str(<<"[", "$", "'", "[", "B", "]", "]">>))
      [] h = "hLink" ->
            Return(Str(LinkOpen \o StringOf(NumberedAttribute(tag.attributes, 1))
                        \o LinkMiddle
                        \o StringOf(NumberedAttribute(tag.attributes, 2))
                        \o LinkClose))

\* The pairs (reference, handler) add() is called with.
Registrations ==
    ({NameA} \X {"hX", "hNone", "hLateNone", "hThrow", "hReject", "hEmit", "hToB"})
    \cup ({NameB} \X {"hY", "hParam", "hToA"})
    \cup {<<RxA, "hY">>, <<FnTrue, "hX">>}

\* The texts parse() is called with: up to MaxTokens tokens in a row.
Tokens == {tokA, tokB, tokBA}

RECURSIVE TextsOf(_)
TextsOf(n) ==
    IF n = 0 THEN {<<>>}
    ELSE LET shorter == TextsOf(n - 1)
         IN  shorter \cup {t \o k : t \in shorter, k \in Tokens}

Texts == TextsOf(MaxTokens)

\* The extra parameters parse() is called with.
ParamLists == {<<>>, <<Go>>}

\* The arguments the recursive call in parse() passes after the text.
Finder == [type |-> "object", s |-> <<"f", "i", "n", "d", "e", "r">>]
Exports == [type |-> "object", s |-> <<"e", "x", "p", "o", "r", "t", "s">>]

\* ---------------------------------------------------------------- registry

\* A parameter whose default is not applied.
DefaultParameterUnset(v, default) == v

\* The value of a parameter with a default: the default stands for
\* undefined, as in throwOnAlreadySet=true.
DefaultParameter(v, default) == IF v = "undefined" THEN default ELSE v

\* The third argument of add(): true, false, or not given.
Flags == {"true", "false", "undefined"}

\* `${name}` in the messages of add(): a string is itself, a regular
\* expression is its source between slashes, and the name field of the
\* other references holds their conversion to a string.
TemplateText(ref) ==
    IF ref.kind = "regexp" THEN <<"/">> \o ref.name \o <<"/">> ELSE ref.name

\* typeof name
TypeOf(ref) ==
    CASE ref.kind \in {"regexp", "array", "object", "null"} ->
            <<"o", "b", "j", "e", "c", "t">>
      [] ref.kind = "string" -> <<"s", "t", "r", "i", "n", "g">>
      [] ref.kind = "function" -> <<"f", "u", "n", "c", "t", "i", "o", "n">>
      [] ref.kind = "number" -> <<"n", "u", "m", "b", "e", "r">>
      [] ref.kind = "boolean" -> <<"b", "o", "o", "l", "e", "a", "n">>
      [] ref.kind = "undefined" -> <<"u", "n", "d", "e", "f", "i", "n", "e", "d">>

NoError == [type |-> "none", message |-> <<>>]

\* What a handler throws, which leaves parse() when the handler is called
\* in the caller's call.
HandlerError == [type |-> "thrown by a handler", message |-> <<>>]

\* The TypeError of an assignment to a property of a string or of
\* undefined in strict mode; its message is the engine's.
CannotCreateProperty == [type |-> "TypeError", message |-> <<>>]

\* new Error(`Tag '${name}' already exists`)
AlreadyExists(ref) ==
    [type |-> "Error",
     message |-> <<"T", "a", "g", " ", "'">> \o TemplateText(ref) \o
        <<"'", " ", "a", "l", "r", "e", "a", "d", "y", " ", "e", "x",
          "i", "s", "t", "s">>]

\* new TypeError(`Cannot assign a non function as handler method for '${name}'`)
NotAFunction(ref) ==
    [type |-> "TypeError",
     message |->
        <<"C", "a", "n", "n", "o", "t", " ", "a", "s", "s", "i", "g",
          "n", " ", "a", " ", "n", "o", "n", " ", "f", "u", "n", "c",
          "t", "i", "o", "n", " ", "a", "s", " ", "h", "a", "n", "d",
          "l", "e", "r", " ", "m", "e", "t", "h", "o", "d", " ", "f",
          "o", "r", " ", "'">>
        \o TemplateText(ref) \o <<"'">>]

\* new TypeError('Cannot add handler if the reference is not a string,
\* regular expression or function. Reference of type: ' + (typeof name) +
\* ', was given.')
BadReference(ref) ==
    [type |-> "TypeError",
     message |->
        <<"C", "a", "n", "n", "o", "t", " ", "a", "d", "d", " ", "h",
          "a", "n", "d", "l", "e", "r", " ", "i", "f", " ", "t", "h",
          "e", " ", "r", "e", "f", "e", "r", "e", "n", "c", "e", " ",
          "i", "s", " ", "n", "o", "t", " ", "a", " ", "s", "t", "r",
          "i", "n", "g", ",", " ", "r", "e", "g", "u", "l", "a", "r",
          " ", "e", "x", "p", "r", "e", "s", "s", "i", "o", "n", " ",
          "o", "r", " ", "f", "u", "n", "c", "t", "i", "o", "n", ".",
          " ", "R", "e", "f", "e", "r", "e", "n", "c", "e", " ", "o",
          "f", " ", "t", "y", "p", "e", ":", " ">>
        \o TypeOf(ref) \o
        <<",", " ", "w", "a", "s", " ", "g", "i", "v", "e", "n", ".">>]

\* new RangeError(`Tag '${name}' does not exist`)
DoesNotExist(ref) ==
    [type |-> "RangeError",
     message |-> <<"T", "a", "g", " ", "'">> \o TemplateText(ref) \o
        <<"'", " ", "d", "o", "e", "s", " ", "n", "o", "t", " ", "e", "x", "i", "s", "t">>]

\* tags: the Map of the parser instance, as the sequence of its entries in
\* insertion order.
MapHas(map, ref) == \E i \in 1..Len(map) : map[i].ref = ref

MapGet(map, ref) == map[CHOOSE i \in 1..Len(map) : map[i].ref = ref].handler

\* A set that takes a present key out and appends it again.
MapSetMoveToEnd(map, ref, handler) ==
    LET Other(entry) == entry.ref # ref
    IN  Append(SelectSeq(map, Other), [ref |-> ref, handler |-> handler])

\* Map.prototype.set: a present key keeps its place and takes the new value,
\* an absent key is appended.
MapSet(map, ref, handler) ==
    IF MapHas(map, ref)
    THEN [i \in 1..Len(map) |->
            IF map[i].ref = ref THEN [ref |-> ref, handler |-> handler] ELSE map[i]]
    ELSE Append(map, [ref |-> ref, handler |-> handler])

\* A handler test that only asks for a value.
IsDefined(h) == h # "undefined"

\* A removal that takes the oldest entry, whatever its key.
MapDeleteFirst(map, ref) == SubSeq(map, 2, Len(map))

\* Map.prototype.delete: the entry of the key is taken out, the others keep
\* their order.
MapDelete(map, ref) ==
    LET Other(entry) == entry.ref # ref
    IN  SelectSeq(map, Other)

\* _.isFunction(handler); _.isString(name), _.isRegExp(name), _.isFunction(name)
IsFunction(h) == h \in Handlers
IsString(ref) == ref.kind = "string"
IsRegExp(ref) == ref.kind = "regexp"
IsFunctionRef(ref) == ref.kind = "function"

\* selector.test(tagContents) for the regular expressions /^.*\.pdf/ and /^A/.
RegExpTest(selector, s) ==
    IF selector = RxPdf
    THEN \E i \in 1..Len(s) :
            /\ HasAt(s, i, <<".", "p", "d", "f">>)
            /\ \A j \in 1..(i - 1) : s[j] \notin LineTerminators
    ELSE Len(s) >= 1 /\ s[1] = "A"

\* selector(tagContents) for the functions
\* tagContents=>/^.*\.pdf/.test(tagContents) and ()=>true.
SelectorCall(selector, s) ==
    IF selector = FnPdf THEN RegExpTest(RxPdf, s) ELSE TRUE

\* _isSelectorMatch(selector, tag)
IsSelectorMatch(selector, tag) ==
    \/ IsRegExp(selector) /\ RegExpTest(selector, tag.tagContents)
    \/ IsFunctionRef(selector) /\ SelectorCall(selector, tag.tagContents)

NoHandler == "none"

\* A selection that takes the entries in insertion order, names and
\* selectors alike, and picks the first that fits the tag.
SelectHandlerInOrder(map, tag) ==
    LET name == [kind |-> "string", name |-> tag.tagName]
        fitting == {i \in 1..Len(map) :
                        map[i].ref = name \/ IsSelectorMatch(map[i].ref, tag)}
    IN  IF fitting = {} THEN NoHandler ELSE map[Min(fitting)].handler

\* A selection that lets every matching selector overwrite the choice, so
\* that the matching entry registered last is the one picked.
SelectHandlerLast(map, tag) ==
    LET name == [kind |-> "string", name |-> tag.tagName]
        matching == {i \in 1..Len(map) : IsSelectorMatch(map[i].ref, tag)}
    IN  IF MapHas(map, name) THEN MapGet(map, name)
        ELSE IF matching = {} THEN NoHandler
        ELSE map[CHOOSE i \in matching : \A j \in matching : j <= i].handler

\* The handler _runHandlers picks for a tag: the one registered under the
\* tag name when there is one, else the first entry, in insertion order,
\* whose selector matches; NoHandler when there is none.
SelectHandler(map, tag) ==
    LET name == [kind |-> "string", name |-> tag.tagName]
        matching == {i \in 1..Len(map) : IsSelectorMatch(map[i].ref, tag)}
    IN  IF MapHas(map, name) THEN MapGet(map, name)
        ELSE IF matching = {} THEN NoHandler
        ELSE map[Min(matching)].handler

\* _applyHandler(handler, tag, params): the state of the promise it returns.
\* A returned value v gives a promise fulfilled with v || ''; a returned
\* promise is followed as it is.
ApplyHandler(h, tag, ps) ==
    LET o == InvokeHandler(h, tag, ps)
    IN  CASE o.kind = "throw" ->
                [state |-> "threw", value |-> Undefined, rejects |-> FALSE]
          [] o.kind = "promise" ->
                [state |-> "pending", value |-> o.value, rejects |-> o.rejects]
          [] OTHER ->
                [state |-> "fulfilled", value |-> OrEmpty(o.value), rejects |-> FALSE]

NoPromise == [state |-> "none", value |-> Undefined, rejects |-> FALSE]

\* The _tags.map(...) of _runHandlers from index n on: the promise of every
\* tag, the handler calls made, and whether a handler threw, which ends the
\* map at that tag.
RECURSIVE DispatchFrom(_, _, _, _)
DispatchFrom(map, tags, ps, n) ==
    IF n > Len(tags) THEN [promises |-> <<>>, calls |-> <<>>, threw |-> FALSE]
    ELSE LET h == SelectHandler(map, tags[n])
             p == ApplyHandler(h, tags[n], ps)
             call == [index |-> n, handler |-> h, tag |-> tags[n], params |-> ps]
             rest == DispatchFrom(map, tags, ps, n + 1)
         IN  IF h = NoHandler
             THEN [rest EXCEPT !.promises = <<NoPromise>> \o rest.promises]
             ELSE IF p.state = "threw"
             THEN [promises |-> <<>>, calls |-> <<call>>, threw |-> TRUE]
             ELSE [promises |-> <<p>> \o rest.promises,
                   calls |-> <<call>> \o rest.calls,
                   threw |-> rest.threw]

\* A dispatch that calls every handler a second time.
DispatchTwice(map, tags, ps) ==
    LET d == DispatchFrom(map, tags, ps, 1)
    IN  [d EXCEPT !.calls = d.calls \o d.calls]

Dispatch(map, tags, ps) == DispatchFrom(map, tags, ps, 1)

\* The .filter(result=>result).mapSeries(...) of _runHandlers from index n
\* on: every tag that has a result replaces, in the order of the tags, the
\* first occurrence of its fullMatch in the text as it is by then.
RECURSIVE ReplaceFrom(_, _, _, _)
ReplaceFrom(t, tags, ps, n) ==
    IF n > Len(tags) THEN t
    ELSE IF ps[n].state = "none" THEN ReplaceFrom(t, tags, ps, n + 1)
    ELSE ReplaceFrom(StringReplace(t, tags[n].fullMatch, ps[n].value), tags, ps, n + 1)

ApplyReplacements(t, tags, ps) == ReplaceFrom(t, tags, ps, 1)

\* ------------------------------------------------------------------- state

VARIABLES
    tagsMap,    \* tags: the registry Map of the parser instance
    error,      \* what the caller's last call of add() or parse() threw,
                \* NoError when it returned
    returned,   \* what the caller's last call returned: the handler add()
                \* or get() returned, "true" for delete(), "promise" for
                \* parse(), "none" when the call
                \* threw or did not return, or no call is made yet
    pc,         \* where the caller and its parse() call are: "idle", "added",
                \* "deleted", "got" (add(), delete(), get() has just returned
                \* or thrown), "waiting" (handlers in
                \* flight), "applied" (the replacements of the pass are made),
                \* "resolved", "rejected" (the returned promise settled),
                \* "thrown" (parse() itself threw), "truncated" (the text
                \* outgrew MaxTextLen and is followed no further), "hung"
                \* (parse() never returns), "new" (no parser is made yet)
    call,       \* the arguments of the parse() call made by the caller
    reparse,    \* the call's text is the result of the call before it
    rescan,     \* the pass is one of a recursive call of parse()
    txt,        \* txt of parse(): the text the pass started from
    params,     \* params of parse(): the extra parameters of the pass
    found,      \* tags of parse(): the resolved tags of the pass
    promises,   \* the promise _runHandlers holds for every tag of the pass
    calls,      \* the handler calls the pass made
    parsedTxt,  \* parsedTxt: the text after the replacements of the pass
    result,     \* the value the promise of parse() resolved with
    lastIndex   \* xGetAttributes.lastIndex: the place the next exec() of the
                \* attribute expression starts from, one for all parsers

vars ==
    <<options, lastIndex, tagsMap, error, returned, pc, call, reparse, rescan, txt, params, found, promises,
      calls, parsedTxt, result>>

passVars == <<rescan, txt, params, found, promises, calls, parsedTxt, result>>

NoCall == [txt |-> <<>>, params |-> <<>>]

\* The parser made by ShortcodeParser(), with the default options.
Init ==
    /\ options = defaultOptions
    /\ lastIndex = 0
    /\ tagsMap = <<>>
    /\ error = NoError
    /\ returned = "none"
    /\ pc = "idle"
    /\ call = NoCall
    /\ reparse = FALSE
    /\ rescan = FALSE
    /\ txt = <<>>
    /\ params = <<>>
    /\ found = <<>>
    /\ promises = <<>>
    /\ calls = <<>>
    /\ parsedTxt = <<>>
    /\ result = <<>>

\* An add() that sets the handler before it tests the handler and the
\* reference.
AddBeforeTests(ref, handler, throwOnAlreadySet) ==
    /\ pc = "idle"
    /\ MapHas(tagsMap, ref) \/ Len(tagsMap) < MaxEntries
    /\ IF MapHas(tagsMap, ref) /\ DefaultParameter(throwOnAlreadySet, "true") = "true"
       THEN /\ error' = AlreadyExists(ref)
            /\ returned' = "none"
            /\ UNCHANGED tagsMap
       ELSE /\ tagsMap' = MapSet(tagsMap, ref, handler)
            /\ IF ~IsFunction(handler)
               THEN error' = NotAFunction(ref) /\ returned' = "none"
               ELSE IF ~IsString(ref) /\ ~IsRegExp(ref) /\ ~IsFunctionRef(ref)
               THEN error' = BadReference(ref) /\ returned' = "none"
               ELSE error' = NoError /\ returned' = MapGet(tagsMap', ref)
    /\ pc' = "added"
    /\ UNCHANGED <<options, lastIndex, call, reparse>>
    /\ UNCHANGED passVars

\* add(name, handler, throwOnAlreadySet=true): the checks in the order of
\* the code, then tags.set(name, handler) and return exports.get(name).
Add(ref, handler, throwOnAlreadySet) ==
    /\ pc = "idle"
    /\ MapHas(tagsMap, ref) \/ Len(tagsMap) < MaxEntries
    /\ IF MapHas(tagsMap, ref) /\ DefaultParameter(throwOnAlreadySet, "true") = "true"
       THEN /\ error' = AlreadyExists(ref)
            /\ returned' = "none"
            /\ UNCHANGED tagsMap
       ELSE IF ~IsFunction(handler)
       THEN /\ error' = NotAFunction(ref)
            /\ returned' = "none"
            /\ UNCHANGED tagsMap
       ELSE IF ~IsString(ref) /\ ~IsRegExp(ref) /\ ~IsFunctionRef(ref)
       THEN /\ error' = BadReference(ref)
            /\ returned' = "none"
            /\ UNCHANGED tagsMap
       ELSE /\ tagsMap' = MapSet(tagsMap, ref, handler)
            /\ error' = NoError
            /\ returned' = MapGet(tagsMap', ref)
    /\ pc' = "added"
    /\ UNCHANGED <<options, lastIndex, call, reparse>>
    /\ UNCHANGED passVars

\* delete(name)
Delete(ref) ==
    /\ pc = "idle"
    /\ IF ~MapHas(tagsMap, ref)
       THEN /\ error' = DoesNotExist(ref)
            /\ returned' = "none"
            /\ UNCHANGED tagsMap
       ELSE /\ tagsMap' = MapDelete(tagsMap, ref)
            /\ error' = NoError
            /\ returned' = "true"
    /\ pc' = "deleted"
    /\ UNCHANGED <<options, lastIndex, call, reparse>>
    /\ UNCHANGED passVars

\* get(name)
Get(ref) ==
    /\ pc = "idle"
    /\ IF ~MapHas(tagsMap, ref)
       THEN /\ error' = DoesNotExist(ref)
            /\ returned' = "none"
       ELSE /\ error' = NoError
            /\ returned' = MapGet(tagsMap, ref)
    /\ pc' = "got"
    /\ UNCHANGED <<options, lastIndex, tagsMap, call, reparse>>
    /\ UNCHANGED passVars

\* The caller has what add(), delete() or get() returned or threw and goes
\* on.
AfterAdd ==
    /\ pc \in {"added", "deleted", "got"}
    /\ pc' = "idle"
    /\ error' = NoError
    /\ returned' = "none"
    /\ UNCHANGED <<options, lastIndex, tagsMap, call, reparse>>
    /\ UNCHANGED passVars

\* _runHandlers(txt, tags, params) up to the promise it returns: the
\* handler of every tag is called, and index is left in
\* xGetAttributes.lastIndex.
RunHandlers(t, ps, recursive, tags, index) ==
    LET d == Dispatch(tagsMap, tags, ps)
    IN  /\ txt' = t
        /\ params' = ps
        /\ rescan' = recursive
        /\ found' = tags
        /\ promises' = d.promises
        /\ calls' = d.calls
        /\ parsedTxt' = <<>>
        /\ result' = <<>>
        /\ lastIndex' = index
        /\ pc' = IF ~d.threw THEN "waiting"
                 ELSE IF recursive THEN "rejected" ELSE "thrown"
        /\ returned' = IF recursive THEN returned
                       ELSE IF d.threw THEN "none" ELSE "promise"
        /\ error' = IF recursive THEN error
                    ELSE IF d.threw THEN HandlerError ELSE NoError

\* parse(t, ...ps) with p what _parse gave: its TypeError ends the call
\* before any handler is called.
ResolvePass(t, ps, recursive, p) ==
    IF p.threw
    THEN /\ txt' = t
         /\ params' = ps
         /\ rescan' = recursive
         /\ found' = <<>>
         /\ promises' = <<>>
         /\ calls' = <<>>
         /\ parsedTxt' = <<>>
         /\ result' = <<>>
         /\ lastIndex' = p.lastIndex
         /\ pc' = IF recursive THEN "rejected" ELSE "thrown"
         /\ returned' = IF recursive THEN returned ELSE "none"
         /\ error' = IF recursive THEN error ELSE CannotCreateProperty
    ELSE RunHandlers(t, ps, recursive, FilterOverlappingTags(FixEndTags(t, p.tags)),
                     p.lastIndex)

\* The synchronous part of parse(t, ...ps): the tags are resolved and
\* _runHandlers calls the handler of every tag.  A handler that throws ends
\* it: the exception leaves parse() when the caller made the call, and
\* rejects the promise when the call is the recursive one, made in a then
\* callback.  So does the TypeError of the attribute loop, before any
\* handler is called.
StartPass(t, ps, recursive) ==
    IF NeverEnds
    THEN /\ txt' = t
         /\ params' = ps
         /\ rescan' = recursive
         /\ found' = <<>>
         /\ promises' = <<>>
         /\ calls' = <<>>
         /\ parsedTxt' = <<>>
         /\ result' = <<>>
         /\ pc' = "hung"
         /\ returned' = IF recursive THEN returned ELSE "none"
         /\ error' = IF recursive THEN error ELSE NoError
         /\ UNCHANGED lastIndex
    ELSE ResolvePass(t, ps, recursive, ParseTagsAt(t, lastIndex))

\* parse(text, ...ps), called on the idle parser.
Parse(text, ps) ==
    /\ pc = "idle"
    /\ call' = [txt |-> text, params |-> ps]
    /\ reparse' = FALSE
    /\ StartPass(text, ps, FALSE)
    /\ UNCHANGED <<options, tagsMap>>

\* parse(out, ...ps), called with the text the call before resolved with and
\* with its parameters.
ParseAgain ==
    /\ pc = "resolved"
    /\ ~reparse
    /\ call' = [txt |-> result, params |-> call.params]
    /\ reparse' = TRUE
    /\ StartPass(result, call.params, FALSE)
    /\ UNCHANGED <<options, tagsMap>>

\* parse(text, ...ps), called after an earlier parse() call threw or its
\* promise settled.
ParseNext(text, ps) ==
    /\ pc \in {"thrown", "resolved", "rejected"}
    /\ call' = [txt |-> text, params |-> ps]
    /\ reparse' = FALSE
    /\ StartPass(text, ps, FALSE)
    /\ UNCHANGED <<options, tagsMap>>

\* The promise a handler returned settles.  A rejection rejects the
\* Promise.all of _runHandlers and with it the promise of parse().
Settle(n) ==
    /\ pc = "waiting"
    /\ n \in 1..Len(promises)
    /\ promises[n].state = "pending"
    /\ IF promises[n].rejects
       THEN /\ promises' = [promises EXCEPT ![n].state = "rejected"]
            /\ pc' = "rejected"
       ELSE /\ promises' = [promises EXCEPT ![n].state = "fulfilled"]
            /\ pc' = "waiting"
    /\ UNCHANGED <<options, lastIndex, tagsMap, error, returned, call, reparse, rescan, txt, params, found,
                   calls, parsedTxt, result>>

\* Replacements made as soon as one promise of the pass is fulfilled.
ReplaceEarly ==
    /\ pc = "waiting"
    /\ \E n \in 1..Len(promises) : promises[n].state = "fulfilled"
    /\ parsedTxt' = ApplyReplacements(txt, found, promises)
    /\ pc' = "applied"
    /\ UNCHANGED <<options, lastIndex, tagsMap, error, returned, call, reparse, rescan, txt, params, found,
                   promises, calls, result>>

\* Promise.all is fulfilled: the replacements are made in the order of the
\* tags, and _runHandlers resolves with the text.
Replace ==
    /\ pc = "waiting"
    /\ \A n \in 1..Len(promises) : promises[n].state \in {"none", "fulfilled"}
    /\ parsedTxt' = ApplyReplacements(txt, found, promises)
    /\ pc' = "applied"
    /\ UNCHANGED <<options, lastIndex, tagsMap, error, returned, call, reparse, rescan, txt, params, found,
                   promises, calls, result>>

\* The then callback of parse(): a changed text is parsed again, with
\* finder and exports as the extra parameters; an unchanged one is the
\* result.
Then ==
    /\ pc = "applied"
    /\ IF txt # parsedTxt
       THEN IF Len(parsedTxt) <= MaxTextLen
            THEN StartPass(parsedTxt, <<Finder, Exports>>, TRUE)
            ELSE pc' = "truncated" /\ UNCHANGED passVars /\ UNCHANGED lastIndex
       ELSE /\ pc' = "resolved"
            /\ result' = parsedTxt
            /\ UNCHANGED <<lastIndex, rescan, txt, params, found, promises, calls, parsedTxt>>
    /\ UNCHANGED <<options, tagsMap, error, returned, call, reparse>>

Next ==
    \/ \E r \in Registrations, b \in Flags : Add(r[1], r[2], b)
    \/ AfterAdd
    \/ \E text \in Texts, ps \in ParamLists : Parse(text, ps)
    \/ ParseAgain
    \/ \E n \in 1..Len(promises) : Settle(n)
    \/ Replace
    \/ Then

Spec == Init /\ [][Next]_vars

\* _runHandlers has every result of the pass and makes the replacements:
\* the step of Replace, seen on pc.
Replacing ==
    /\ pc = "waiting"
    /\ \A n \in 1..Len(promises) : promises[n].state \in {"none", "fulfilled"}
    /\ pc' = "applied"

\* The then callback of parse() runs: the step of Then, seen on pc.
Continuing ==
    /\ pc = "applied"
    /\ pc' \in {"waiting", "rejected", "resolved", "truncated"}

\* Promises settle and then callbacks run; whether and when the caller
\* calls add() or parse() is up to the caller.  The only steps of Next
\* that change pc from "waiting" to "applied" are those of Replace, and the
\* only steps that leave "applied" are those of Then, so that the two
\* conditions on pc are weak fairness of Replace and of Then.
FairSpec ==
    /\ Spec
    /\ WF_vars(\E n \in 1..Len(promises) : Settle(n))
    /\ WF_pc(Replacing)
    /\ WF_pc(Continuing)

\* ------------------------------------------------- texts with end tags

\* The same parser, called with texts that hold start tags, end tags and
\* plain text, and with handlers for the names A and B that ignore the tag.
tokEndA == <<"[", "[", "/", "A", "]", "]">>
tokEndB == <<"[", "[", "/", "B", "]", "]">>
tokC == <<"c">>
ScanTokens == {tokA, tokB, tokEndA, tokEndB, tokC}

RECURSIVE ScanTextsOf(_)
ScanTextsOf(n) ==
    IF n = 0 THEN {<<>>}
    ELSE LET shorter == ScanTextsOf(n - 1)
         IN  shorter \cup {t \o k : t \in shorter, k \in ScanTokens}

\* '[[A]][[B]][[/A]][[C]][[/B]]': a tag C after the end of A, inside the
\* span of the tag B that overlaps A.
tokTagC == <<"[", "[", "C", "]", "]">>
OverlapText == tokA \o tokB \o tokEndA \o tokTagC \o tokEndB

ScanTexts == ScanTextsOf(MaxScanTokens) \cup {OverlapText}

ScanRegistrations == {<<NameA, "hX">>, <<NameB, "hY">>}

ScanNext ==
    \/ \E r \in ScanRegistrations : Add(r[1], r[2], "true")
    \/ AfterAdd
    \/ \E text \in ScanTexts : Parse(text, <<>>)
    \/ \E n \in 1..Len(promises) : Settle(n)
    \/ Replace
    \/ Then

ScanSpec == Init /\ [][ScanNext]_vars

\* ------------------------------------------------- texts with attributes

\* The same parser, called with a tag A that has an attribute block, and
\* with the text of the pdf link example.  An attribute of the block is
\* written key='value', key="value" or key=value, or is a bare token or a
\* lone quoted token.
KeyedForms == {"single", "double", "plain"}

AttrTokens ==
    [keyed : {TRUE}, form : KeyedForms, key : {<<"k">>},
     value : {<<"v">>, <<"a", "=", "b">>}]
    \cup [keyed : {FALSE}, form : {"bare"}, key : {<<>>}, value : {<<"t">>}]
    \cup [keyed : {FALSE}, form : {"single", "double"}, key : {<<>>},
          value : {<<"t">>, <<"v", " ", "w">>}]

\* The text of an attribute.
Quoted(form, value) ==
    CASE form = "single" -> <<"'">> \o value \o <<"'">>
      [] form = "double" -> <<"\"">> \o value \o <<"\"">>
      [] OTHER -> value

AttrText(a) ==
    IF a.keyed THEN a.key \o <<"=">> \o Quoted(a.form, a.value)
    ELSE Quoted(a.form, a.value)

RECURSIVE AttrBlocksOf(_)
AttrBlocksOf(n) ==
    IF n = 0 THEN {<<>>}
    ELSE LET shorter == AttrBlocksOf(n - 1)
         IN  shorter \cup {Append(b, a) : b \in shorter, a \in AttrTokens}

AttrBlocks == AttrBlocksOf(MaxAttrs)

RECURSIVE BlockText(_)
BlockText(b) ==
    IF b = <<>> THEN <<>>
    ELSE IF Len(b) = 1 THEN AttrText(b[1])
    ELSE AttrText(b[1]) \o <<" ">> \o BlockText(Tail(b))

\* The tag A with the attribute block b.
TagWith(b) == <<"[", "[", "A", " ">> \o BlockText(b) \o EndDelim

\* let sampleText = '[[mydoc.pdf "Interesting Document"]]'
PdfText ==
    <<"[", "[", "m", "y", "d", "o", "c", ".", "p", "d", "f", " ", "\"",
      "I", "n", "t", "e", "r", "e", "s", "t", "i", "n", "g", " ", "D", "o",
      "c", "u", "m", "e", "n", "t", "\"", "]", "]">>

AttrTexts == {TagWith(b) : b \in AttrBlocks} \cup {PdfText}

AttrRegistrations == {<<NameA, "hX">>, <<RxPdf, "hLink">>, <<FnPdf, "hLink">>}

AttrNext ==
    \/ \E r \in AttrRegistrations : Add(r[1], r[2], "true")
    \/ AfterAdd
    \/ \E text \in AttrTexts : Parse(text, <<>>)
    \/ Replace
    \/ Then

AttrSpec == Init /\ [][AttrNext]_vars

\* --------------------------------------------- texts with numeral keys

\* The attributes of the numeral texts: the keyed ones 1=x, 2=x and k=x,
\* and the bare one t.
NumeralTokens ==
    [keyed : {TRUE}, form : {"plain"}, key : {<<"1">>, <<"2">>, <<"k">>},
     value : {<<"x">>}]
    \cup [keyed : {FALSE}, form : {"bare"}, key : {<<>>}, value : {<<"t">>}]

RECURSIVE NumeralBlocksOf(_)
NumeralBlocksOf(n) ==
    IF n = 0 THEN {<<>>}
    ELSE LET shorter == NumeralBlocksOf(n - 1)
         IN  shorter \cup {Append(b, a) : b \in shorter, a \in NumeralTokens}

NumeralBlocks == NumeralBlocksOf(MaxAttrs)

\* The tag A with a block of these attributes, and the tag A without white
\* space.
NumeralTexts == {TagWith(b) : b \in NumeralBlocks} \cup {tokA}

NumeralRegistrations == {<<NameA, "hX">>, <<NameA, "hNone">>}

\* Calls of parse() one after the other, each after the one before it has
\* thrown or its promise has settled.
NumeralNext ==
    \/ \E r \in NumeralRegistrations : Add(r[1], r[2], "true")
    \/ AfterAdd
    \/ \E text \in NumeralTexts : Parse(text, <<>>)
    \/ \E text \in NumeralTexts : ParseNext(text, <<>>)
    \/ Replace
    \/ Then

NumeralSpec == Init /\ [][NumeralNext]_vars

\* ------------------------------------------------- configured delimiters

\* The options objects ShortcodeParser(options) is called with: the curly
\* and the Wordpress delimiters, a start delimiter that begins with the
\* letter d, and the objects with an empty start or end delimiter.
OptionsObjects ==
    { [start |-> <<"{", "{">>, end |-> <<"}", "}">>],
      [start |-> <<"[">>, end |-> <<"]">>],
      [start |-> <<"d", ":">>, end |-> <<";">>],
      [start |-> <<>>],
      [end |-> <<>>],
      [start |-> <<>>, end |-> <<>>] }

\* Object.assign({}, target, source): the keys of source over those of
\* target.
ObjectAssign(target, source) ==
    [k \in DOMAIN target \cup DOMAIN source |->
        IF k \in DOMAIN source THEN source[k] ELSE target[k]]

\* No parser is made yet.
DelimInit ==
    /\ options = defaultOptions
    /\ lastIndex = 0
    /\ tagsMap = <<>>
    /\ error = NoError
    /\ returned = "none"
    /\ pc = "new"
    /\ call = NoCall
    /\ reparse = FALSE
    /\ rescan = FALSE
    /\ txt = <<>>
    /\ params = <<>>
    /\ found = <<>>
    /\ promises = <<>>
    /\ calls = <<>>
    /\ parsedTxt = <<>>
    /\ result = <<>>

\* ShortcodeParser(opts): the regular expressions of the finder are made
\* of the merged options and the instance is returned.  Nothing looks at
\* the delimiters, and every pattern made of them compiles.
Construct(opts) ==
    /\ pc = "new"
    /\ options' = ObjectAssign(defaultOptions, opts)
    /\ pc' = "idle"
    /\ UNCHANGED <<lastIndex, tagsMap, error, returned, call, reparse>>
    /\ UNCHANGED passVars

\* The texts parse() is called with under the configured delimiters: up to
\* MaxDelimTokens of a tag A in the default, curly, Wordpress and d:
\* delimiters, the same with the digit 5 for the letter d, and a tag A
\* without its start or end delimiter.
tokCurlyA == <<"{", "{", "A", "}", "}">>
tokWordpressA == <<"[", "A", "]">>
tokLetterA == <<"d", ":", "A", ";">>
tokDigitA == <<"5", ":", "A", ";">>
tokHeadlessA == <<"A", "]", "]">>
tokOpen == <<"[", "[">>
DelimTokens ==
    {tokA, tokCurlyA, tokWordpressA, tokLetterA, tokDigitA, tokHeadlessA, tokOpen}

RECURSIVE DelimTextsOf(_)
DelimTextsOf(n) ==
    IF n = 0 THEN {<<>>}
    ELSE LET shorter == DelimTextsOf(n - 1)
         IN  shorter \cup {t \o k : t \in shorter, k \in DelimTokens}

DelimTexts == DelimTextsOf(MaxDelimTokens)

DelimRegistrations == {<<NameA, "hX">>}

DelimNext ==
    \/ \E opts \in OptionsObjects : Construct(opts)
    \/ \E r \in DelimRegistrations : Add(r[1], r[2], "true")
    \/ AfterAdd
    \/ \E text \in DelimTexts : Parse(text, <<>>)
    \/ Replace
    \/ Then

DelimSpec == DelimInit /\ [][DelimNext]_vars

\* ------------------------------------------------------- calls of add()

\* References that are neither a string, a regular expression nor a
\* function: 1, [], {}, null, undefined and true, with their conversion to
\* a string as the name.
RefNumber == [kind |-> "number", name |-> <<"1">>]
RefArray == [kind |-> "array", name |-> <<>>]
RefObject ==
    [kind |-> "object",
     name |-> <<"[", "o", "b", "j", "e", "c", "t", " ", "O", "b", "j", "e", "c", "t", "]">>]
RefNull == [kind |-> "null", name |-> <<"n", "u", "l", "l">>]
RefUndefined ==
    [kind |-> "undefined", name |-> <<"u", "n", "d", "e", "f", "i", "n", "e", "d">>]
RefBoolean == [kind |-> "boolean", name |-> <<"t", "r", "u", "e">>]

AddReferences ==
    {NameA, NameB, RxA, FnTrue,
     RefNumber, RefArray, RefObject, RefNull, RefUndefined, RefBoolean}

\* Handlers that are not functions: the string 'HELLO' and undefined.
NonFunctions == {"'HELLO'", "undefined"}

AddHandlers == {"hX", "hY"} \cup NonFunctions

\* The caller calls add() with any of the references and handlers, with
\* and without the third argument.
AddNext ==
    \/ \E ref \in AddReferences, handler \in AddHandlers, b \in Flags :
            Add(ref, handler, b)
    \/ AfterAdd

AddSpec == Init /\ [][AddNext]_vars

\* -------------------------------------------------- registry and dispatch

\* The caller adds, overwrites, deletes and gets handlers under the name
\* 'A' and under the selectors /^A/ and ()=>true, tries the number 1 as a
\* reference and a string as a handler, and parses a tag A or a tag B.
RegistryReferences == {NameA, RxA, FnTrue, RefNumber}

RegistryHandlers == {"hX", "hNone", "'HELLO'"}

RegistryTexts == {tokA, tokB}

RegistryNext ==
    \/ \E ref \in RegistryReferences, handler \in RegistryHandlers, b \in Flags :
            Add(ref, handler, b)
    \/ \E ref \in RegistryReferences : Delete(ref)
    \/ \E ref \in RegistryReferences : Get(ref)
    \/ AfterAdd
    \/ \E text \in RegistryTexts : Parse(text, <<>>)
    \/ Replace
    \/ Then

RegistrySpec == Init /\ [][RegistryNext]_vars

\* ------------------------------------------------------- claims: helpers

\* A handler threw in the pass, which ended _runHandlers at its tag.
Threw ==
    /\ pc \in {"thrown", "rejected"}
    /\ \A n \in 1..Len(promises) : promises[n].state # "rejected"

\* _runHandlers came to tag n of the pass.
Reached(n) == ~Threw \/ (calls # <<>> /\ n <= calls[Len(calls)].index)

\* The handler calls of the pass made for tag n.
CallsFor(n) == {k \in 1..Len(calls) : calls[k].index = n}

NameOf(tag) == [kind |-> "string", name |-> tag.tagName]

\* The registry positions of the pattern and predicate entries matching tag.
Matching(tag) == {i \in 1..Len(tagsMap) : IsSelectorMatch(tagsMap[i].ref, tag)}

Contains(t, pat) == IndexOf(t, pat) >= 0

\* The text with the span [start, end) of every tag among the first n that
\* has a result replaced by that result, the rest unchanged.
RECURSIVE Splice(_, _, _, _)
Splice(t, tags, ps, n) ==
    IF n = 0 THEN t
    ELSE IF ps[n].state = "none" THEN Splice(t, tags, ps, n - 1)
    ELSE Splice(SubSeq(t, 1, tags[n].start) \o StringOf(ps[n].value)
                    \o SubSeq(t, tags[n].end + 1, Len(t)),
                tags, ps, n - 1)

\* ------------------------------------------------------------------ claims

\* No result of the pass holds a "$", the character String.prototype.replace
\* reads patterns from.
PlainResults ==
    \A n \in 1..Len(promises) :
        promises[n].state = "fulfilled" =>
            \A k \in 1..Len(StringOf(promises[n].value)) :
                StringOf(promises[n].value)[k] # "$"

\* C1: the output of a pass is its input with the span [start, end) of every
\* resolved tag that has a handler replaced by the handler's result, and
\* every character outside those spans unchanged, also when the text of a
\* tag occurs earlier in the text or is produced by an earlier replacement
\* of the pass.  Stated for the passes whose results hold no "$".
C1_OutputIsInputSpliced ==
    (pc = "applied" /\ PlainResults) =>
        parsedTxt = Splice(txt, found, promises, Len(found))

\* C2: every handler call made for a call parse(text, p1, ..., pn), in the
\* first pass and in every re-scan pass, gets the tag record followed by
\* exactly p1, ..., pn.
C2_HandlersGetCallParams ==
    \A k \in 1..Len(calls) :
        /\ calls[k].tag = found[calls[k].index]
        /\ calls[k].params = call.params

\* C3: for every tag whose tagName is registered as an exact name, the
\* handler registered under the name is the one called, and no handler of a
\* pattern or predicate entry is called for the tag, wherever the entries
\* stand in the registry.
C3_ExactNameFirst ==
    \A n \in 1..Len(found) :
        (MapHas(tagsMap, NameOf(found[n])) /\ Reached(n)) =>
            /\ CallsFor(n) # {}
            /\ \A k \in CallsFor(n) :
                    calls[k].handler = MapGet(tagsMap, NameOf(found[n]))

\* C3, its case: the handler of an exact name was called for a tag that a
\* pattern or predicate entry registered before the name matches too.
C3_Witness ==
    \E k \in 1..Len(calls) : \E i, j \in 1..Len(tagsMap) :
        /\ i < j
        /\ i \in Matching(calls[k].tag)
        /\ tagsMap[j].ref = NameOf(calls[k].tag)
        /\ tagsMap[i].handler # tagsMap[j].handler
        /\ calls[k].handler = tagsMap[j].handler

\* C4: a tag with no exact-name handler that several pattern or predicate
\* entries match gets exactly one handler call, the call of the handler of
\* the matching entry registered first.
C4_FirstRegisteredMatch ==
    \A n \in 1..Len(found) :
        (/\ ~MapHas(tagsMap, NameOf(found[n]))
         /\ Matching(found[n]) # {}
         /\ Reached(n)) =>
            /\ Cardinality(CallsFor(n)) = 1
            /\ \A k \in CallsFor(n) :
                    calls[k].handler = tagsMap[Min(Matching(found[n]))].handler

\* C4, its case: a tag with no exact-name handler, matched by two entries
\* with different handlers, had its handler called.
C4_Witness ==
    \E k \in 1..Len(calls) :
        /\ ~MapHas(tagsMap, NameOf(calls[k].tag))
        /\ Cardinality(Matching(calls[k].tag)) >= 2
        /\ \E i, j \in Matching(calls[k].tag) : tagsMap[i].handler # tagsMap[j].handler

\* C5: a tag with no matching handler contributes no replacement, its text
\* appears unchanged in the output of the pass; and a text in which no tag
\* has a handler resolves to itself after a single pass.
C5_UnhandledTagUnchanged ==
    /\ pc = "applied" =>
            \A n \in 1..Len(found) :
                promises[n].state = "none" => Contains(parsedTxt, found[n].fullMatch)
    /\ (pc = "applied" /\ \A n \in 1..Len(found) : promises[n].state = "none") =>
            parsedTxt = txt
    /\ (pc = "resolved" /\ calls = <<>> /\ ~rescan) => result = call.txt

\* A tag has a handler: its name is registered, or a pattern or predicate
\* entry matches it.
HasHandler(tag) == MapHas(tagsMap, NameOf(tag)) \/ Matching(tag) # {}

C7_FailureIsRejection ==
    /\ pc # "thrown"
    /\ pc = "rejected" => result = <<>>

\* The handler called for tag n of the pass returned, or resolved to, an
\* absent or empty result.
EmptyResult(n) ==
    \E k \in CallsFor(n) :
        ~Truthy(InvokeHandler(calls[k].handler, calls[k].tag, calls[k].params).value)

\* C8: a handler result that is absent or empty, returned at once or the
\* resolution of a promise, makes the replacement of the tag the empty
\* string and never puts another text, such as "undefined", in the output.
C8_EmptyResultIsEmptyText ==
    /\ \A n \in 1..Len(promises) :
            (promises[n].state = "fulfilled" /\ EmptyResult(n)) =>
                StringOf(promises[n].value) = <<>>
    /\ pc = "applied" => ~Contains(parsedTxt, StringOf(Undefined))

\* A result of the pass holds the start delimiter.
ResultHoldsStart ==
    \E n \in 1..Len(promises) :
        /\ promises[n].state \in {"pending", "fulfilled"}
        /\ Contains(StringOf(promises[n].value), StartDelim)

\* C9: parse(text) resolves in the end whenever every handler called
\* completes and no handler result holds the start delimiter.  (A call
\* whose text outgrows MaxTextLen is left aside.)
C9_ParseResolves ==
    (pc = "waiting") ~>
        (pc \in {"resolved", "rejected", "thrown", "truncated"} \/ ResultHoldsStart)

\* C10: when parse(text) resolved to out, parse(out) with the same registry
\* and parameters resolves to out too.
C10_ReparseIsIdentity ==
    reparse =>
        /\ pc \notin {"rejected", "thrown"}
        /\ pc = "resolved" => result = call.txt

\* A handler can fire for the tag: its name is registered, or a selector
\* of the registry matches it.
HasCandidate(map, tag) == SelectHandler(map, tag) # NoHandler

\* The resolved tags of one pass when _parse drops the records without a
\* handler before the end tags are folded, as the earlier _parse did with
\* .filter(result=>exports.has(result.tagName)).
ResolveTagsEager(map, t) ==
    LET Has(tag) == HasCandidate(map, tag)
    IN  FilterOverlappingTags(FixEndTags(t, SelectSeq(ParseTags(t), Has)))

\* The promises of a pass once every pending one is fulfilled.
AllSettled(ps) ==
    [n \in 1..Len(ps) |->
        IF ps[n].state = "pending" THEN [ps[n] EXCEPT !.state = "fulfilled"]
        ELSE ps[n]]

\* The output of one pass over t that drops the records without a handler
\* first.
EagerPass(map, t, ps) ==
    LET tags == ResolveTagsEager(map, t)
    IN  ApplyReplacements(t, tags, AllSettled(Dispatch(map, tags, ps).promises))

\* The text parse(t, ...ps) resolves with when every pass drops the records
\* without a handler first; at most fuel re-scans are made.
RECURSIVE EagerParse(_, _, _, _)
EagerParse(map, t, ps, fuel) ==
    LET out == EagerPass(map, t, ps)
    IN  IF out = t \/ fuel = 0 THEN out
        ELSE EagerParse(map, out, <<Finder, Exports>>, fuel - 1)

\* C11: tags with no handler candidate never change the final output: parse
\* resolves with the same text whether the records with no exact-name,
\* pattern or predicate match are removed before end-tag folding and
\* overlap filtering or kept until dispatch; a tag that has a handler and
\* lies between an unhandled start tag and its end tag is still resolved.
C11_EagerOrLazyFilter ==
    pc = "resolved" =>
        result = EagerParse(tagsMap, call.txt, call.params, Len(call.txt))

\* C12: after end-tag folding and overlap filtering the resolved tag records
\* are in ascending start order and no two overlap: the start of each is
\* greater than or equal to the end of the one before it.
C12_ResolvedTagsDisjoint ==
    \A n \in 2..Len(found) :
        /\ found[n - 1].start < found[n].start
        /\ found[n].start >= found[n - 1].end

\* C12, its case: two tags are resolved and a start tag of the text, lying
\* inside a folded tag, was dropped.
C12_Witness ==
    /\ Len(found) >= 2
    /\ \E n \in 1..Len(found) : ~found[n].selfClosing
    /\ LET IsStart(t) == ~t.endTag
       IN  Len(SelectSeq(ParseTags(txt), IsStart)) > Len(found)

\* The offset at which the start tag of a resolved tag ends.
StartTagEnd(tag) ==
    tag.start + Len(StartDelim) + Len(tag.tagContents) + Len(EndDelim)

\* The end tags of the text that carry the name of the tag and come after
\* its start tag.
EndTagsOf(tag) ==
    {e \in {ParseTags(txt)[n] : n \in 1..Len(ParseTags(txt))} :
        e.endTag /\ e.tagName = tag.tagName /\ e.start >= StartTagEnd(tag)}

\* C13: a start tag paired with an end tag is handed to its handler with
\* content equal to the text strictly between the end of the start tag and
\* the start of its end tag and with selfClosing false; a tag with no
\* matching end tag is handed over with content "" and selfClosing true.
\* (Any end tag of the name after the start tag is taken as its end tag.)
C13_ContentBetweenTags ==
    \A k \in 1..Len(calls) :
        LET tag == calls[k].tag
        IN  IF EndTagsOf(tag) = {}
            THEN tag.selfClosing /\ tag.content = <<>>
            ELSE /\ ~tag.selfClosing
                 /\ \E e \in EndTagsOf(tag) :
                        tag.content = SubSeq(txt, StartTagEnd(tag) + 1, e.start)

\* The attributes object the block b stands for: a keyed attribute is a
\* named property and, at its position, an object with that one property; a
\* bare or lone quoted token is a string at its position.
RECURSIVE AttributesOf(_, _)
AttributesOf(b, attributes) ==
    IF b = <<>> THEN attributes
    ELSE AttributesOf(Tail(b),
            IF b[1].keyed
            THEN [numbered |-> Append(attributes.numbered,
                                      ObjectOf(b[1].key, Str(b[1].value))),
                  named |-> SetProperty(attributes.named, b[1].key, Str(b[1].value))]
            ELSE [attributes EXCEPT !.numbered = Append(@, Str(b[1].value))])

\* C14: for every attribute block the forms key='value', key="value" and
\* key=value yield the same keyed value and the same positional entry, an
\* object holding that one pair; a bare or lone quoted token yields only a
\* positional string; positions are 1-based and count every token, keyed
\* or bare, from left to right.
C14_AttributeForms ==
    \A k \in 1..Len(calls) : \A b \in AttrBlocks :
        calls[k].tag.fullMatch = TagWith(b) =>
            calls[k].tag.attributes = AttributesOf(b, NoAttributes)

\* The text the pdf link example is said to log.
PdfLink ==
    <<"<", "a", " ", "h", "r", "e", "f", "=", "\"", "/", "u", "p", "l",
      "o", "a", "d", "s", "/", "p", "d", "f", "s", "/", "m", "y", "d", "o",
      "c", ".", "p", "d", "f", "\"", ">", "I", "n", "t", "e", "r", "e",
      "s", "t", "i", "n", "g", " ", "D", "o", "c", "u", "m", "e", "n", "t",
      "<", "/", "a", ">">>

\* C15: for a tag matched by a pattern or predicate selector the positional
\* attributes index the tokens of the tag head from its first token on:
\* with the pdf link handler registered under /^.*\.pdf/, or under the
\* function that tests it, parse('[[mydoc.pdf "Interesting Document"]]')
\* resolves to '<a href="/uploads/pdfs/mydoc.pdf">Interesting Document</a>'.
C15_PdfLinkExample ==
    (/\ pc = "resolved"
     /\ call.txt = PdfText
     /\ MapHas(tagsMap, RxPdf) \/ MapHas(tagsMap, FnPdf)) =>
        result = PdfLink

\* C16: with non-empty delimiters, every span of the text recognised as a
\* tag begins with exactly the configured start string and ends with
\* exactly the configured end string.
C16_DelimitersAreLiteral ==
    (StartDelim # <<>> /\ EndDelim # <<>>) =>
        \A n \in 1..Len(found) :
            LET span == found[n].fullMatch
            IN  /\ HasAt(span, 1, StartDelim)
                /\ HasAt(span, Len(span) - Len(EndDelim) + 1, EndDelim)

\* C17: no parser instance exists whose start or end delimiter is the
\* empty string: making it failed.
C17_EmptyDelimiterFails ==
    pc # "new" => (StartDelim # <<>> /\ EndDelim # <<>>)

\* The message "Tag '<name>' already exists" for the tag name.
TagAlreadyExists(name) ==
    <<"T", "a", "g", " ", "'">> \o name \o
    <<"'", " ", "a", "l", "r", "e", "a", "d", "y", " ", "e", "x", "i", "s", "t", "s">>

C19_TrueAllowsOverwrite ==
    [][\A ref \in AddReferences, handler \in AddHandlers :
        (MapHas(tagsMap, ref) /\ handler \notin NonFunctions
            /\ Add(ref, handler, "true")) =>
            /\ error' = NoError
            /\ MapGet(tagsMap', ref) = handler]_vars

\* The references add() accepts: strings, regular expressions, functions.
RightKinds == {"string", "regexp", "function"}

TagDoesNotExist(name) ==
    <<"T", "a", "g", " ", "'">> \o name \o
    <<"'", " ", "d", "o", "e", "s", " ", "n", "o", "t", " ", "e", "x", "i", "s", "t">>

\* C21: get() and delete() of a reference that is not registered throw a
\* RangeError, with the message "Tag '<name>' does not exist" for a name,
\* which is neither the Error nor the TypeError of add(); delete() of a
\* registered reference returns true and has() is false afterwards; get()
\* of a registered reference returns its handler.
C21_LookupAndDelete ==
    [][\A ref \in RegistryReferences :
        /\ ((Get(ref) \/ Delete(ref)) /\ ~MapHas(tagsMap, ref)) =>
                /\ error'.type = "RangeError"
                /\ error'.type \notin {"Error", "TypeError"}
                /\ ref.kind = "string" =>
                        error'.message = TagDoesNotExist(ref.name)
        /\ (Delete(ref) /\ MapHas(tagsMap, ref)) =>
                /\ error' = NoError
                /\ returned' = "true"
                /\ ~MapHas(tagsMap', ref)
        /\ (Get(ref) /\ MapHas(tagsMap, ref)) =>
                /\ error' = NoError
                /\ \E i \in 1..Len(tagsMap) :
                        tagsMap[i].ref = ref /\ returned' = tagsMap[i].handler]_vars

\* A registered reference was deleted while another entry stays.
C21_Witness ==
    pc = "deleted" /\ returned = "true" /\ Len(tagsMap) >= 1

\* C28: a call of add(), delete() or get() that throws leaves the registry,
\* its entries and their order, as it was.
C28_FailureKeepsRegistry ==
    [][(pc = "idle" /\ pc' \in {"added", "deleted", "got"} /\ error' # NoError)
            => tagsMap' = tagsMap]_vars

\* A call of add() has thrown a TypeError on a registry that holds entries.
C28_Witness ==
    pc = "added" /\ error.type = "TypeError" /\ Len(tagsMap) >= 1

\* The references of the registry in its order.
RefsOf(map) == [i \in 1..Len(map) |-> map[i].ref]

\* C29: the order of the registry, in which _runHandlers tries the pattern
\* and predicate entries, changes only by a new reference going behind all
\* entries and by a deleted reference leaving: an add() that overwrites
\* keeps every position, and a reference added again after its delete()
\* is the last.
C29_FallbackOrder ==
    [][/\ \A ref \in RegistryReferences, handler \in RegistryHandlers, b \in Flags :
            (Add(ref, handler, b) /\ error' = NoError) =>
                /\ MapHas(tagsMap, ref) => RefsOf(tagsMap') = RefsOf(tagsMap)
                /\ ~MapHas(tagsMap, ref) =>
                        RefsOf(tagsMap') = Append(RefsOf(tagsMap), ref)
       /\ \A ref \in RegistryReferences :
            (Delete(ref) /\ MapHas(tagsMap, ref)) =>
                \E i \in 1..Len(tagsMap) :
                    /\ tagsMap[i].ref = ref
                    /\ tagsMap' = SubSeq(tagsMap, 1, i - 1)
                                    \o SubSeq(tagsMap, i + 1, Len(tagsMap))]_vars

\* An add() has overwritten the first of two pattern or predicate entries,
\* which is still the first.
C29_Witness ==
    /\ pc = "added"
    /\ Len(tagsMap) = 2
    /\ tagsMap[1].ref.kind # "string"
    /\ tagsMap[2].ref.kind # "string"
    /\ tagsMap[1].handler # tagsMap[2].handler
    /\ returned = tagsMap[1].handler

\* The tag records of the pass before and after the folding of end tags,
\* end tags still among them.
RawTags == ParseTags(txt)
FoldedTags == FixEndTagsFrom(txt, RawTags, 1)

\* The pairs <<start tag, end tag>> of positions in tags, from end tag n
\* on, when every end tag takes the nearest start tag of its name before it
\* that is in no pair yet (used holds the start tags in a pair).
RECURSIVE PairsFrom(_, _, _)
PairsFrom(tags, n, used) ==
    IF n > Len(tags) THEN {}
    ELSE LET open == {nn \in 1..(n - 1) :
                        /\ tags[nn].tagName = tags[n].tagName
                        /\ ~tags[nn].endTag
                        /\ nn \notin used}
             nearest == CHOOSE nn \in open : \A j \in open : j <= nn
         IN  IF ~tags[n].endTag \/ open = {}
             THEN PairsFrom(tags, n + 1, used)
             ELSE {<<nearest, n>>} \cup PairsFrom(tags, n + 1, used \cup {nearest})

Pairs == PairsFrom(RawTags, 1, {})

\* C22: after the folding, a start tag in a pair is its record folded with
\* the end tag of the pair, and every other start tag is its record as it
\* was extracted.
C22_EndTagPairsOnce ==
    \A nn \in 1..Len(RawTags) :
        ~RawTags[nn].endTag =>
            /\ \A p \in Pairs :
                    p[1] = nn =>
                        FoldedTags[nn] = FoldEndTag(txt, RawTags[nn], RawTags[p[2]])
            /\ (\A p \in Pairs : p[1] # nn) => FoldedTags[nn] = RawTags[nn]

\* The records that survive when every record is compared with the earlier
\* survivors only (kept), from record n on.
RECURSIVE SurvivorsFrom(_, _, _)
SurvivorsFrom(tags, n, kept) ==
    IF n > Len(tags) THEN kept
    ELSE IF \E i \in 1..Len(kept) : kept[i].end > tags[n].start
    THEN SurvivorsFrom(tags, n + 1, kept)
    ELSE SurvivorsFrom(tags, n + 1, Append(kept, tags[n]))

\* C23: the resolved tags of a pass are the folded records that do not
\* start before the end of an earlier surviving record.
C23_OnlySurvivorsCount ==
    pc # "idle" => found = SurvivorsFrom(FixEndTags(txt, RawTags), 1, <<>>)

\* The end tags of the pass that are in no pair.
Orphans == {n \in 1..Len(RawTags) : RawTags[n].endTag /\ \A p \in Pairs : p[2] # n}

\* C25: no resolved tag is an end tag, and an end tag in no pair changes no
\* record: the folded records are those of the tags without it.
C25_OrphanEndTagDropped ==
    /\ \A n \in 1..Len(found) : ~found[n].endTag
    /\ \A n \in Orphans :
            FixEndTags(txt, RawTags)
                = FixEndTags(txt, SubSeq(RawTags, 1, n - 1)
                                    \o SubSeq(RawTags, n + 1, Len(RawTags)))

\* C26: the fullMatch of every tag a handler was called with is the text
\* of the pass from start to end.
C26_FullMatchIsSpan ==
    \A k \in 1..Len(calls) :
        LET tag == calls[k].tag
        IN  /\ 0 <= tag.start
            /\ tag.start <= tag.end
            /\ tag.end <= Len(txt)
            /\ tag.fullMatch = SubSeq(txt, tag.start + 1, tag.end)

\* A handler was called with a start tag folded with two end tags.
C26_Witness ==
    \E k \in 1..Len(calls) :
        calls[k].tag.fullMatch = tokA \o tokEndA \o tokC \o tokEndA

\* The text of the pass after the replacements of its first n tags, made
\* one after the other in the order of the tags.
RECURSIVE ReplacedUpTo(_)
ReplacedUpTo(n) ==
    IF n = 0 THEN txt
    ELSE IF promises[n].state = "none" THEN ReplacedUpTo(n - 1)
    ELSE StringReplace(ReplacedUpTo(n - 1), found[n].fullMatch, promises[n].value)

\* C24: while a handler of the pass is pending the text of the pass has no
\* replacement; the replaced text exists only when every promise of the
\* pass is fulfilled and is the text after the replacements in ascending
\* order of the tags' starts; and a re-scan pass starts only from the
\* replaced text of the pass before it.
C24_ReplaceAfterAllInOrder ==
    /\ [](/\ pc = "waiting" => parsedTxt = <<>>
          /\ pc = "applied" =>
                /\ \A n \in 1..Len(promises) :
                        promises[n].state \in {"none", "fulfilled"}
                /\ \A n \in 2..Len(found) : found[n - 1].start < found[n].start
                /\ parsedTxt = ReplacedUpTo(Len(found)))
    /\ [][(rescan' /\ txt' # txt) => (pc = "applied" /\ txt' = parsedTxt)]_vars

\* The replacements of a pass with two handlers that returned promises
\* are made.
C24_Witness ==
    /\ pc = "applied"
    /\ parsedTxt # txt
    /\ \E j, k \in 1..Len(calls) :
            /\ calls[j].index # calls[k].index
            /\ calls[j].handler = "hY"
            /\ calls[k].handler = "hY"

\* The entry of the attribute token a at its position: the object with the
\* one pair for a keyed token, the string for a bare one.
EntryOf(a) == IF a.keyed THEN ObjectOf(a.key, Str(a.value)) ELSE Str(a.value)

\* C27: attribute parsing never fails, and in the attributes of a tag
\* handed to a handler the numbered property i is the entry of the i-th
\* attribute token, whatever the keys are: a token with a numeral as its
\* key neither overwrites a numbered property nor is overwritten by one.
C27_SlotHoldsToken ==
    /\ error # CannotCreateProperty
    /\ \A k \in 1..Len(calls) : \A b \in NumeralBlocks :
            calls[k].tag.fullMatch = TagWith(b) =>
                \A i \in 1..Len(b) :
                    NumberedAttribute(calls[k].tag.attributes, i) = EntryOf(b[i])

\* C30: the tags a pass of parse() finds, and whether making them throws,
\* are those its text gives with an attribute expression that starts from
\* the beginning of every attribute text: no earlier parse() call, failed
\* or not, has a part in them.
C30_TagsDependOnTextOnly ==
    pc \in {"waiting", "applied", "resolved", "rejected", "thrown"} =>
        LET p == ParseTagsAt(txt, 0)
        IN  IF p.threw
            THEN pc \in {"rejected", "thrown"} /\ found = <<>>
            ELSE found = FilterOverlappingTags(FixEndTags(txt, p.tags))

====
